---- MODULE Spec2Model ----
(***************************************************************************)
(* A model of the endogenous block allocator of myLab/myAllocator.c.       *)
(*                                                                         *)
(* The arena is modelled in-band, as the C code keeps it: memory is a map  *)
(* from byte addresses to 8-byte cells, a block prefix is two cells (the   *)
(* suffix pointer at offset 0, the allocated flag at offset 8), a block    *)
(* suffix is one cell (the prefix pointer).  Every function of the source  *)
(* is an operator that takes the machine state m (memory, the globals      *)
(* arenaBegin, arenaEnd, growingDisabled, the program break) and returns   *)
(* the machine state after it, with the returned value in the field v      *)
(* where the C function returns one.                                       *)
(*                                                                         *)
(* Scaling.  DEFAULT_BRKSIZE is 1 MiB in the source; the model keeps the   *)
(* layout constants (prefixSize, suffixSize, the alignment of 8) and       *)
(* scales the arena to ArenaWords cells.  size_t and pointers are 64 bit   *)
(* in the source; the model keeps modular arithmetic with the modulus      *)
(* SizeMod = 2^SizeBits, and int is the signed reading of the same width.  *)
(*                                                                         *)
(* A load or store outside the mapped memory (address 0 included), the use *)
(* of a cell that holds no pointer as a pointer, and a block walk that     *)
(* never ends are recorded in the field err; the program is then dead.     *)
(*                                                                         *)
(* The allocator gives a meaning to the prefix and suffix cells of the     *)
(* blocks of the chain only, and the caller to what it wrote into the      *)
(* regions it holds.  Every other cell (fresh memory, the remains of old   *)
(* prefixes, suffixes and payloads) is indeterminate: it has no cell in    *)
(* mem, and a load of it is an error.                                      *)
(***************************************************************************)
EXTENDS Integers, FiniteSets, Sequences, TLC

VARIABLES mem, arenaBegin, arenaEnd, growingDisabled, brk, err, sound, live, last

vars == <<mem, arenaBegin, arenaEnd, growingDisabled, brk, err, sound, live, last>>

(***************************************************************************)
(* Bounds of the model.                                                    *)
(***************************************************************************)
ArenaWords == 14          \* cells of one DEFAULT_BRKSIZE chunk

MaxReq == 40              \* largest size a caller requests

NData == 1                \* byte patterns a caller writes into a region

MaxGrow == 1              \* chunks the memory provider can add after the first

SizeBits == 10            \* width of size_t and of pointers

MaxHeld == 3              \* regions held at a time while the arena can grow

(***************************************************************************)
(* Program constants.                                                      *)
(***************************************************************************)
WordSize == 8

prefixSize == 16

suffixSize == 8

DEFAULT_BRKSIZE == WordSize * ArenaWords

ArenaBase == 8 * WordSize \* the program break before the first sbrk

SizeMod == 2 ^ SizeBits

INT_MAX == (SizeMod \div 2) - 1

\* the sizes a caller asks for: the multiples of 8, some sizes that are none,
\* and one that no block of the first chunk can hold
ReqSizes == {s \in 0 .. MaxReq : s % 8 = 0 \/ s % 16 = 1} \cup {DEFAULT_BRKSIZE}

DataVals == 1 .. NData

\* the provider has memory for the first chunk and MaxGrow chunks more, each
\* with room for a request of DEFAULT_BRKSIZE bytes
MemLimit == ArenaBase + DEFAULT_BRKSIZE + MaxGrow * (DEFAULT_BRKSIZE + prefixSize + suffixSize)

(***************************************************************************)
(* size_t / pointer arithmetic and the conversions to and from int.        *)
(***************************************************************************)
Add(a, b) == (a + b) % SizeMod

Sub(a, b) == ((a - b) + 2 * SizeMod) % SizeMod

\* (int) x: the signed reading of a size_t
ToInt(x) == IF x % SizeMod >= SizeMod \div 2 THEN (x % SizeMod) - SizeMod ELSE x % SizeMod

\* (size_t) i: an int in an unsigned expression
ToSize(i) == (i + 2 * SizeMod) % SizeMod

\* align8 on a size_t: ((x)+7) & ~7
align8(x) == LET y == Add(x, 7) IN y - (y % 8)

\* align8 on an int: the same expression in signed arithmetic
align8i(i) == ToInt(align8(ToSize(i)))

(***************************************************************************)
(* Memory cells.  An address with no cell is indeterminate.                *)
(***************************************************************************)
PtrW(a) == <<"ptr", a>>

IntW(v) == <<"int", v>>

DataW(d) == <<"dat", d>>

JunkW == <<"junk", 0>>

NoMem == [a \in {} |-> JunkW]

Cell(mm, a) == IF a \in DOMAIN mm THEN mm[a] ELSE JunkW

\* the cells other than a that a store of w bytes at a overwrites in part
Clobbered(mm, a, w) == {b \in DOMAIN mm : b # a /\ b < a + w /\ a < b + WordSize}

Put(mm, a, w, val) ==
    LET cl == Clobbered(mm, a, w)
    IN  IF a \in DOMAIN mm /\ cl = {} THEN [mm EXCEPT ![a] = val]
        ELSE [b \in DOMAIN mm \cup {a} |->
            IF b = a THEN val ELSE IF b \in cl THEN JunkW ELSE mm[b]]

Mapped(m, a, w) == ArenaBase <= a /\ a + w <= m.brk

Fault(m, what) == IF m.err = "none" THEN [m EXCEPT !.err = what] ELSE m

Ret(m, val) == [m |-> m, v |-> val]

StPtr(m, a, p) ==
    IF m.err # "none" THEN m
    ELSE IF ~Mapped(m, a, 8) THEN Fault(m, "segv")
    ELSE [m EXCEPT !.mem = Put(m.mem, a, 8, PtrW(p))]

\* a store to an int field: the low four bytes of the cell
StInt(m, a, i) ==
    IF m.err # "none" THEN m
    ELSE IF ~Mapped(m, a, 4) THEN Fault(m, "segv")
    ELSE [m EXCEPT !.mem = Put(m.mem, a, 4, IntW(i))]

StData(m, a, w) ==
    IF m.err # "none" THEN m
    ELSE IF ~Mapped(m, a, 8) THEN Fault(m, "segv")
    ELSE [m EXCEPT !.mem = Put(m.mem, a, 8, w)]

\* a load of a pointer field; a cell whose low half was overwritten by an
\* int store, user data and partly overwritten cells are no pointers
LdPtr(m, a) ==
    IF m.err # "none" THEN Ret(m, 0)
    ELSE IF ~Mapped(m, a, 8) THEN Ret(Fault(m, "segv"), 0)
    ELSE LET w == Cell(m.mem, a)
         IN  IF w[1] = "ptr" THEN Ret(m, w[2])
             ELSE Ret(Fault(m, "wild"), 0)

\* a load of an int field; the low half of a stored pointer is not zero
LdInt(m, a) ==
    IF m.err # "none" THEN Ret(m, 0)
    ELSE IF ~Mapped(m, a, 4) THEN Ret(Fault(m, "segv"), 0)
    ELSE LET w == Cell(m.mem, a)
         IN  IF w[1] = "int" THEN Ret(m, w[2])
             ELSE IF w[1] = "ptr" THEN Ret(m, IF w[2] = 0 THEN 0 ELSE 1)
             ELSE Ret(Fault(m, "wild"), 0)

(***************************************************************************)
(* The layout of BlockPrefix_t and BlockSuffix_t.                          *)
(***************************************************************************)
OffSuffix == 0            \* BlockPrefix_t.suffix

OffAllocated == 8         \* BlockPrefix_t.allocated

OffPrefix == 0            \* BlockSuffix_t.prefix

(***************************************************************************)
(* The memory provider, sbrk(n): n fresh bytes at the program break.       *)
(* env is what the environment does: "ok", "fail" (no memory: returns -1), *)
(* "moved" (another user of the break took a cell first).                  *)
(* A request beyond the memory limit fails.                                *)
(***************************************************************************)
Env == {"ok", "fail", "moved"}

sbrk(m, n, env) ==
    LET gap == IF env = "moved" THEN WordSize ELSE 0
        m1  == [m EXCEPT !.calls = @ + 1]
    IN  IF env = "fail" \/ n >= SizeMod \div 2 \/ m.brk + gap + n > MemLimit
        THEN Ret([m1 EXCEPT !.got = SizeMod - 1], SizeMod - 1)
        ELSE Ret([m1 EXCEPT !.brk = m.brk + gap + n, !.got = m.brk + gap], m.brk + gap)

(***************************************************************************)
(* myAllocator.c.  Bind(v, K) is K(v): the value of a call of the C code   *)
(* is bound to the name the C code gives it, once, in the order of the C   *)
(* code.                                                                   *)
(***************************************************************************)
Bind(v, K(_)) == K(v)

\* a faulty makeFreeBlock: the suffix's back-reference is not written
makeFreeBlockNoBackRef(m, addr, size) ==
    LET limitAddr == Add(addr, size)
        s == Sub(limitAddr, align8(suffixSize))
    IN  Ret(StInt(StPtr(m, Add(addr, OffSuffix), s), Add(addr, OffAllocated), 0), addr)

\* the calls of makeFreeBlock made so far by the running public function
Stamped(m, m0, addr, size) ==
    IF m0.err # "none" THEN m ELSE [m EXCEPT !.stamps = @ \cup {<<addr, size>>}]

makeFreeBlock(m, addr, size) ==
    LET limitAddr == Add(addr, size)
        s == Sub(limitAddr, align8(suffixSize))
    IN  Ret(Stamped(StInt(StPtr(StPtr(m, Add(addr, OffSuffix), s), Add(s, OffPrefix), addr),
                          Add(addr, OffAllocated), 0), m, addr, size),
            addr)

\* the first chunk is taken to be granted: the source does not test it
initializeArena(m) ==
    IF m.arenaBegin # 0 \/ m.err # "none" THEN m
    ELSE Bind(sbrk(m, DEFAULT_BRKSIZE, "ok"), LAMBDA b :
         Bind(makeFreeBlock(b.m, b.v, DEFAULT_BRKSIZE), LAMBDA f :
             [f.m EXCEPT !.arenaBegin = f.v, !.arenaEnd = Add(f.v, DEFAULT_BRKSIZE)]))

computeUsableSpace(m, p) ==
    Bind(LdPtr(m, Add(p, OffSuffix)), LAMBDA s :
        Ret(s.m, Sub(s.v, Add(p, prefixSize))))

computeNextPrefixAddr(m, p) ==
    Bind(LdPtr(m, Add(p, OffSuffix)), LAMBDA s :
        Ret(s.m, Add(s.v, suffixSize)))

computePrevSuffixAddr(p) == Sub(p, suffixSize)

getNextPrefix(m, p) ==
    Bind(computeNextPrefixAddr(m, p), LAMBDA np :
        IF np.v < np.m.arenaEnd THEN np ELSE Ret(np.m, 0))

getPrevPrefix(m, p) ==
    IF computePrevSuffixAddr(p) > m.arenaBegin
    THEN LdPtr(m, Add(computePrevSuffixAddr(p), OffPrefix))
    ELSE Ret(m, 0)

\* a faulty coalescePrev: prev->allocated is not looked at
coalescePrevAny(m, p) ==
    Bind(getPrevPrefix(m, p), LAMBDA prev :
        IF p = 0 \/ prev.v = 0 THEN Ret(prev.m, p)
        ELSE Bind(LdInt(prev.m, Add(p, OffAllocated)), LAMBDA pa :
            IF pa.v # 0 THEN Ret(pa.m, p)
            ELSE Bind(computeNextPrefixAddr(pa.m, p), LAMBDA np :
                Ret(makeFreeBlock(np.m, prev.v, Sub(np.v, prev.v)).m, prev.v))))

\* if (p && prev && !p->allocated && !prev->allocated), left to right
coalescePrev(m, p) ==
    Bind(getPrevPrefix(m, p), LAMBDA prev :
        IF p = 0 \/ prev.v = 0 THEN Ret(prev.m, p)
        ELSE Bind(LdInt(prev.m, Add(p, OffAllocated)), LAMBDA pa :
            IF pa.v # 0 THEN Ret(pa.m, p)
            ELSE Bind(LdInt(pa.m, Add(prev.v, OffAllocated)), LAMBDA qa :
                IF qa.v # 0 THEN Ret(qa.m, p)
                ELSE Bind(computeNextPrefixAddr(qa.m, p), LAMBDA np :
                    Ret(makeFreeBlock(np.m, prev.v, Sub(np.v, prev.v)).m, prev.v)))))

\* a faulty coalesce: the successor is not looked at
coalescePrevOnly(m, p) == IF p # 0 THEN coalescePrev(m, p) ELSE Ret(m, 0)

\* called with p = 0 the C function returns no value; no caller does so
coalesce(m, p) ==
    IF p # 0
    THEN Bind(coalescePrev(m, p), LAMBDA c1 :
         Bind(getNextPrefix(c1.m, c1.v), LAMBDA next :
             IF next.v # 0 THEN coalescePrev(next.m, next.v) ELSE Ret(next.m, c1.v)))
    ELSE Ret(m, 0)

\* a faulty growArena: growingDisabled is not looked at
growArenaAlways(m, s, env) ==
    Bind(IF Add(s, prefixSize + suffixSize) < DEFAULT_BRKSIZE
         THEN DEFAULT_BRKSIZE ELSE Add(s, prefixSize + suffixSize), LAMBDA s2 :
    Bind(sbrk(m, s2, env), LAMBDA n :
        IF n.v = 0 \/ n.v # n.m.arenaEnd THEN Ret(n.m, 0)
        ELSE Bind(makeFreeBlock([n.m EXCEPT !.arenaEnd = Add(n.v, s2)], n.v, s2),
                  LAMBDA f : coalescePrev(f.m, f.v))))

growArena(m, s, env) ==
    IF m.growingDisabled # 0 THEN Ret(m, 0)
    ELSE Bind(IF Add(s, prefixSize + suffixSize) < DEFAULT_BRKSIZE
              THEN DEFAULT_BRKSIZE ELSE Add(s, prefixSize + suffixSize), LAMBDA s2 :
         Bind(sbrk(m, s2, env), LAMBDA n :
             IF n.v = 0 \/ n.v # n.m.arenaEnd THEN Ret(n.m, 0)
             ELSE Bind(makeFreeBlock([n.m EXCEPT !.arenaEnd = Add(n.v, s2)], n.v, s2),
                       LAMBDA f : coalescePrev(f.m, f.v))))

pcheck(m, p) == p >= m.arenaBegin /\ p < m.arenaEnd

\* the number of addresses a terminating block walk can visit
Fuel(m) == ((m.brk - ArenaBase) \div WordSize) + 1

\* the walk of arenaCheck with its assertions, without the report it prints
RECURSIVE arenaCheckLoop(_, _, _)
arenaCheckLoop(m, p, fuel) ==
    IF m.err # "none" \/ p = 0 THEN m
    ELSE IF fuel = 0 THEN Fault(m, "hang")
    ELSE Bind(computeUsableSpace(m, p), LAMBDA u :
         Bind(LdInt(u.m, Add(p, OffAllocated)), LAMBDA a :
         Bind(LdPtr(a.m, Add(p, OffSuffix)), LAMBDA s :
         Bind(IF pcheck(s.m, p) /\ pcheck(s.m, s.v)
              THEN LdPtr(s.m, Add(s.v, OffPrefix)) ELSE Ret(s.m, 0), LAMBDA sp :
             IF sp.m.err # "none" THEN sp.m
             ELSE IF ~pcheck(sp.m, p) \/ ~pcheck(sp.m, s.v) \/ sp.v # p
             THEN Fault(sp.m, "assert")
             ELSE IF Add(s.v, suffixSize) = sp.m.arenaEnd THEN sp.m
             ELSE IF ~pcheck(sp.m, Add(s.v, suffixSize)) THEN Fault(sp.m, "assert")
             ELSE arenaCheckLoop(sp.m, Add(s.v, suffixSize), fuel - 1)))))

arenaCheck(m) == arenaCheckLoop(m, m.arenaBegin, Fuel(m))

RECURSIVE findFirstFitLoop(_, _, _, _, _)
findFirstFitLoop(m, p, s, env, fuel) ==
    IF m.err # "none" THEN Ret(m, 0)
    ELSE IF p = 0 THEN growArena(m, s, env)
    ELSE IF fuel = 0 THEN Ret(Fault(m, "hang"), 0)
    ELSE Bind(LdInt(m, Add(p, OffAllocated)), LAMBDA a :
         Bind(IF a.v = 0 THEN computeUsableSpace(a.m, p) ELSE Ret(a.m, 0), LAMBDA u :
             IF a.v = 0 /\ u.v >= s THEN Ret(u.m, p)
             ELSE Bind(getNextPrefix(u.m, p), LAMBDA n :
                 findFirstFitLoop(n.m, n.v, s, env, fuel - 1))))

\* a faulty findFirstFit: the first free block, whatever its size
findFirstFitAnySize(m, s, env) == findFirstFitLoop(m, m.arenaBegin, 0, env, Fuel(m))

\* a faulty findFirstFit: the walk starts at the second block
findFirstFitFromSecond(m, s, env) ==
    findFirstFitLoop(m, getNextPrefix(m, m.arenaBegin).v, s, env, Fuel(m))

findFirstFit(m, s, env) == findFirstFitLoop(m, m.arenaBegin, s, env, Fuel(m))

\* space == s and space > s compare an int with a size_t (as size_t);
\* space < minUsableSpace compares two ints
RECURSIVE findBestFitLoop(_, _, _, _, _, _, _)
findBestFitLoop(m, p, bestFit, minUsableSpace, s, env, fuel) ==
    IF m.err # "none" THEN Ret(m, 0)
    ELSE IF p = 0 THEN (IF bestFit # 0 THEN Ret(m, bestFit) ELSE growArena(m, s, env))
    ELSE IF fuel = 0 THEN Ret(Fault(m, "hang"), 0)
    ELSE Bind(LdInt(m, Add(p, OffAllocated)), LAMBDA a :
         Bind(IF a.v = 0 THEN computeUsableSpace(a.m, p) ELSE Ret(a.m, 0), LAMBDA u :
         Bind(ToInt(u.v), LAMBDA space :
             IF a.v = 0 /\ ToSize(space) = s THEN Ret(u.m, p)
             ELSE Bind(a.v = 0 /\ space < minUsableSpace /\ ToSize(space) > s, LAMBDA take :
                  Bind(getNextPrefix(u.m, p), LAMBDA n :
                      findBestFitLoop(n.m, n.v,
                                      IF take THEN p ELSE bestFit,
                                      IF take THEN space ELSE minUsableSpace,
                                      s, env, fuel - 1))))))

\* a faulty findBestFit: the first block that fits
findBestFitFirst(m, s, env) == findFirstFit(m, s, env)

findBestFit(m, s, env) ==
    findBestFitLoop(m, m.arenaBegin, 0, INT_MAX, s, env, Fuel(m))

regionToPrefix(r) == IF r # 0 THEN Sub(r, prefixSize) ELSE 0

prefixToRegion(p) == IF p # 0 THEN Add(p, prefixSize) ELSE 0

\* the branch a public function has reached, for the properties; a program
\* that has faulted reaches nothing
Path(m, branch) == IF m.err # "none" THEN m ELSE [m EXCEPT !.path = branch]

\* what an allocation did, for the properties: the block it took and the branch
Took(m, p, branch) ==
    IF m.err # "none" THEN m ELSE [m EXCEPT !.blk = p, !.path = branch]

\* if (split) { the two makeFreeBlock calls that cut block at freeSliverStart }
Carved(m, split, block, freeSliverStart) ==
    IF split
    THEN Bind(computeNextPrefixAddr(m, block), LAMBDA freeSliverEnd :
             makeFreeBlock(makeFreeBlock(freeSliverEnd.m, freeSliverStart,
                                         Sub(freeSliverEnd.v, freeSliverStart)).m,
                           block, Sub(freeSliverStart, block)).m)
    ELSE m

\* a faulty firstFitAllocRegion: the block is split when availSize >= asize + 8
firstFitAllocRegionEarlySplit(m, s, env) ==
    Bind(align8(s), LAMBDA asize :
    Bind(findFirstFit(IF m.arenaBegin = 0 THEN initializeArena(m) ELSE m, s, env), LAMBDA f :
        IF f.v # 0
        THEN Bind(computeUsableSpace(f.m, f.v), LAMBDA availSize :
             Bind(availSize.v >= Add(asize, 8), LAMBDA split :
                 Ret(Took(StInt(Carved(availSize.m, split, f.v,
                                       Add(f.v, Add(prefixSize + suffixSize, asize))),
                                Add(f.v, OffAllocated), 1),
                          f.v, IF split THEN "split" ELSE "whole"),
                     prefixToRegion(f.v))))
        ELSE Ret(Took(f.m, 0, "fail"), 0)))

firstFitAllocRegion(m, s, env) ==
    Bind(align8(s), LAMBDA asize :
    Bind(findFirstFit(IF m.arenaBegin = 0 THEN initializeArena(m) ELSE m, s, env), LAMBDA f :
        IF f.v # 0
        THEN Bind(computeUsableSpace(f.m, f.v), LAMBDA availSize :
             Bind(availSize.v >= Add(asize, prefixSize + suffixSize + 8), LAMBDA split :
                 Ret(Took(StInt(Carved(availSize.m, split, f.v,
                                       Add(f.v, Add(prefixSize + suffixSize, asize))),
                                Add(f.v, OffAllocated), 1),
                          f.v, IF split THEN "split" ELSE "whole"),
                     prefixToRegion(f.v))))
        ELSE Ret(Took(f.m, 0, "fail"), 0)))

bestFitAllocRegion(m, s, env) ==
    Bind(align8(s), LAMBDA asize :
    Bind(findBestFit(IF m.arenaBegin = 0 THEN initializeArena(m) ELSE m, s, env), LAMBDA f :
        IF f.v # 0
        THEN Bind(computeUsableSpace(f.m, f.v), LAMBDA availSize :
             Bind(availSize.v >= Add(asize, prefixSize + suffixSize + 8), LAMBDA split :
                 Ret(Took(StInt(Carved(availSize.m, split, f.v,
                                       Add(f.v, Add(prefixSize + suffixSize, asize))),
                                Add(f.v, OffAllocated), 1),
                          f.v, IF split THEN "split" ELSE "whole"),
                     prefixToRegion(f.v))))
        ELSE Ret(Took(f.m, 0, "fail"), 0)))

\* a faulty freeRegion: the freed block is not coalesced
freeRegionNoCoalesce(m, r) ==
    IF r # 0 THEN StInt(m, Add(regionToPrefix(r), OffAllocated), 0) ELSE m

freeRegion(m, r) ==
    IF r # 0
    THEN coalesce(StInt(m, Add(regionToPrefix(r), OffAllocated), 0), regionToPrefix(r)).m
    ELSE m

\* for (i = 0; i < oldSize; i++) n[i] = o[i], a cell at a time
RECURSIVE copyLoop(_, _, _, _, _)
copyLoop(m, n, o, i, oldSize) ==
    IF m.err # "none" \/ i >= oldSize THEN m
    ELSE IF ~Mapped(m, Add(o, i), 1) THEN Fault(m, "segv")
    ELSE copyLoop(StData(m, Add(n, i), Cell(m.mem, Add(o, i))), n, o, i + WordSize, oldSize)

\* a faulty end of the resize functions: the old region is not freed
copyAndKeep(c, r, oldSize) ==
    Ret(copyLoop(Path(c.m, "copy"), c.v, r, 0, oldSize), c.v)

\* the shared end of the three resize functions, after the new region n is allocated
copyAndFree(c, r, oldSize) ==
    Ret(freeRegion(copyLoop(Path(c.m, "copy"), c.v, r, 0, oldSize), r), c.v)

\* a faulty oldSize: always 0
oldSizeZero(m, r) == Ret(m, 0)

\* int oldSize of the three resize functions
oldSizeOf(m, r) ==
    IF r # 0
    THEN Bind(computeUsableSpace(m, regionToPrefix(r)), LAMBDA u : Ret(u.m, ToInt(u.v)))
    ELSE Ret(m, 0)

\* a faulty oldResizeRegion: the new region is allocated by best fit
oldResizeRegionBestFit(m, r, newSize, env) ==
    Bind(oldSizeOf(m, r), LAMBDA oldSize :
        IF ToSize(oldSize.v) >= newSize
        THEN Ret(Path(oldSize.m, "same"), r)
        ELSE copyAndFree(bestFitAllocRegion(oldSize.m, newSize, env), r, oldSize.v))

oldResizeRegion(m, r, newSize, env) ==
    Bind(oldSizeOf(m, r), LAMBDA oldSize :
        IF ToSize(oldSize.v) >= newSize
        THEN Ret(Path(oldSize.m, "same"), r)
        ELSE copyAndFree(firstFitAllocRegion(oldSize.m, newSize, env), r, oldSize.v))

\* the end of every in-place branch: currentPrefix->allocated = 1 and the return
\* (the branch is marked where it is entered)
Grown(c, branch) ==
    Ret(StInt(c.m, Add(c.v, OffAllocated), 1), prefixToRegion(c.v))

\* a faulty successor merge: a fresh region is allocated and copied into
mergeNextByCopy(m, currentPrefix, nextBlock, usableSpaceNext, usableSpaceCurrent, newSize) ==
    copyAndFree(bestFitAllocRegion(m, newSize, "ok"), prefixToRegion(currentPrefix),
                ToInt(usableSpaceCurrent))

\* lines 345-368 and 398-421: grow into the free successor
mergeNext(m, currentPrefix, nextBlock, usableSpaceNext, usableSpaceCurrent, newSize) ==
    Bind(align8i(ToInt(Sub(newSize, usableSpaceCurrent))), LAMBDA aSize :
        Grown(coalescePrev(StInt(Carved(Path(m, "next"), usableSpaceNext >= ToSize(aSize + 8), nextBlock,
                                        Add(nextBlock, ToSize(aSize))),
                                 Add(currentPrefix, OffAllocated), 0),
                           nextBlock), "next"))

\* lines 426-450: grow into the free predecessor
mergePast(m, currentPrefix, pastBlock, usableSpacePast, usableSpaceCurrent, newSize) ==
    Bind(ToInt(align8(Sub(newSize, usableSpaceCurrent))), LAMBDA missingSize :
    Bind(align8(Sub(usableSpacePast, ToSize(missingSize))), LAMBDA aSize :
        Grown(coalescePrev(StInt(Carved(Path(m, "past"), usableSpacePast >= Add(aSize, 8), pastBlock,
                                        Add(pastBlock, Add(prefixSize + suffixSize, aSize))),
                                 Add(currentPrefix, OffAllocated), 0),
                           currentPrefix), "past")))

\* lines 456-477: both neighbours, the predecessor trimmed
mergeBothTrimPast(m, currentPrefix, pastBlock, usableSpacePast, usableSpaceNext, usableSpaceCurrent, newSize) ==
    Bind(ToInt(align8(Sub(Sub(Sub(newSize, usableSpaceCurrent), usableSpaceNext),
                          prefixSize + suffixSize))), LAMBDA missingSize :
    Bind(align8i(ToInt(Sub(usableSpacePast, ToSize(missingSize)))), LAMBDA aSize :
        Grown(coalesce(StInt(Carved(Path(m, "both_past"), usableSpacePast >= ToSize(aSize + 8), pastBlock,
                                    Add(Add(pastBlock, ToSize(aSize)),
                                        prefixSize + suffixSize)),
                             Add(currentPrefix, OffAllocated), 0),
                       currentPrefix), "both_past")))

\* lines 478-498: both neighbours, the successor trimmed
mergeBothTrimNext(m, currentPrefix, nextBlock, usableSpacePast, usableSpaceNext, usableSpaceCurrent, newSize) ==
    Bind(ToInt(align8(Add(usableSpaceCurrent, usableSpacePast))), LAMBDA missingSize :
    Bind(align8i(ToInt(Sub(newSize, ToSize(missingSize)))), LAMBDA aSize :
        Grown(coalesce(StInt(Carved(Path(m, "both_next"), usableSpaceNext >= ToSize(aSize + 8), nextBlock,
                                    Sub(Add(nextBlock, ToSize(aSize)),
                                        prefixSize + suffixSize)),
                             Add(currentPrefix, OffAllocated), 0),
                       currentPrefix), "both_next")))

\* computeUsableSpace(nextBlock) and computeUsableSpace(pastBlock) at lines
\* 343, 397 and 425 are called before the block is tested for null, and the
\* value is used only behind the test.  With a null block the read of
\* ((BlockPrefix_t *) 0)->suffix is undefined: it traps, or the compiler has
\* moved the read behind the test and nothing is read (m.ub).  The field
\* nulls counts the calls made with a null block.
NullRead == {"trap", "elided"}

usableSpaceOfNeighbour(m, p) ==
    IF p # 0 \/ m.err # "none" THEN computeUsableSpace(m, p)
    ELSE IF m.ub = "elided" THEN Ret([m EXCEPT !.nulls = @ + 1], 0)
    ELSE computeUsableSpace([m EXCEPT !.nulls = @ + 1], p)

\* usableSpaceNext is read before nextBlock is tested (line 343)
resizeRegion(m, r, newSize, env) ==
    Bind(oldSizeOf(m, r), LAMBDA oldSize :
        IF ToSize(oldSize.v) >= newSize
        THEN Ret(Path(oldSize.m, "same"), r)
        ELSE Bind(regionToPrefix(r), LAMBDA currentPrefix :
             Bind(getNextPrefix(oldSize.m, currentPrefix), LAMBDA nextBlock :
             Bind(usableSpaceOfNeighbour(nextBlock.m, nextBlock.v), LAMBDA usableSpaceNext :
             Bind(computeUsableSpace(usableSpaceNext.m, currentPrefix),
                  LAMBDA usableSpaceCurrent :
             Bind(IF nextBlock.v # 0
                  THEN LdInt(usableSpaceCurrent.m, Add(nextBlock.v, OffAllocated))
                  ELSE Ret(usableSpaceCurrent.m, 1), LAMBDA na :
                 IF nextBlock.v # 0 /\ na.v = 0
                     /\ ToSize(ToInt(Add(usableSpaceNext.v, usableSpaceCurrent.v))) >= newSize
                 THEN mergeNext(na.m, currentPrefix, nextBlock.v, usableSpaceNext.v,
                                usableSpaceCurrent.v, newSize)
                 ELSE copyAndFree(bestFitAllocRegion(na.m, newSize, env), r, oldSize.v)))))))

\* a faulty choice of the neighbour to trim: a tie trims the predecessor
resizeRegionExtraPastTie(m, r, currentPrefix, nextBlock, nextFree, usableSpaceNext, usableSpaceCurrent, oldSize, newSize, env) ==
    Bind(getPrevPrefix(m, currentPrefix), LAMBDA pastBlock :
    Bind(usableSpaceOfNeighbour(pastBlock.m, pastBlock.v), LAMBDA usableSpacePast :
    Bind(IF pastBlock.v # 0
         THEN LdInt(usableSpacePast.m, Add(pastBlock.v, OffAllocated))
         ELSE Ret(usableSpacePast.m, 1), LAMBDA pa :
    Bind(pastBlock.v # 0 /\ pa.v = 0, LAMBDA pastFree :
        IF pastFree /\ ToSize(ToInt(Add(usableSpacePast.v, usableSpaceCurrent))) >= newSize
        THEN mergePast(pa.m, currentPrefix, pastBlock.v, usableSpacePast.v,
                       usableSpaceCurrent, newSize)
        ELSE IF pastFree /\ nextFree
            /\ ToSize(ToInt(Add(Add(usableSpacePast.v, usableSpaceNext),
                                usableSpaceCurrent))) >= newSize
        THEN (IF usableSpacePast.v >= usableSpaceNext
              THEN mergeBothTrimPast(pa.m, currentPrefix, pastBlock.v, usableSpacePast.v,
                                     usableSpaceNext, usableSpaceCurrent, newSize)
              ELSE mergeBothTrimNext(pa.m, currentPrefix, nextBlock, usableSpacePast.v,
                                     usableSpaceNext, usableSpaceCurrent, newSize))
        ELSE copyAndFree(bestFitAllocRegion(pa.m, newSize, env), r, oldSize)))))

\* lines 423-509, after the successor alone could not serve the request
resizeRegionExtraPast(m, r, currentPrefix, nextBlock, nextFree, usableSpaceNext, usableSpaceCurrent, oldSize, newSize, env) ==
    Bind(getPrevPrefix(m, currentPrefix), LAMBDA pastBlock :
    Bind(usableSpaceOfNeighbour(pastBlock.m, pastBlock.v), LAMBDA usableSpacePast :
    Bind(IF pastBlock.v # 0
         THEN LdInt(usableSpacePast.m, Add(pastBlock.v, OffAllocated))
         ELSE Ret(usableSpacePast.m, 1), LAMBDA pa :
    Bind(pastBlock.v # 0 /\ pa.v = 0, LAMBDA pastFree :
        IF pastFree /\ ToSize(ToInt(Add(usableSpacePast.v, usableSpaceCurrent))) >= newSize
        THEN mergePast(pa.m, currentPrefix, pastBlock.v, usableSpacePast.v,
                       usableSpaceCurrent, newSize)
        ELSE IF pastFree /\ nextFree
            /\ ToSize(ToInt(Add(Add(usableSpacePast.v, usableSpaceNext),
                                usableSpaceCurrent))) >= newSize
        THEN (IF usableSpacePast.v > usableSpaceNext
              THEN mergeBothTrimPast(pa.m, currentPrefix, pastBlock.v, usableSpacePast.v,
                                     usableSpaceNext, usableSpaceCurrent, newSize)
              ELSE mergeBothTrimNext(pa.m, currentPrefix, nextBlock, usableSpacePast.v,
                                     usableSpaceNext, usableSpaceCurrent, newSize))
        ELSE copyAndFree(bestFitAllocRegion(pa.m, newSize, env), r, oldSize)))))

\* usableSpaceNext is read before nextBlock is tested (line 397)
resizeRegionExtra(m, r, newSize, env) ==
    Bind(oldSizeOf(m, r), LAMBDA oldSize :
        IF ToSize(oldSize.v) >= newSize
        THEN Ret(Path(oldSize.m, "same"), r)
        ELSE Bind(regionToPrefix(r), LAMBDA currentPrefix :
             Bind(getNextPrefix(oldSize.m, currentPrefix), LAMBDA nextBlock :
             Bind(usableSpaceOfNeighbour(nextBlock.m, nextBlock.v), LAMBDA usableSpaceNext :
             Bind(computeUsableSpace(usableSpaceNext.m, currentPrefix),
                  LAMBDA usableSpaceCurrent :
             Bind(IF nextBlock.v # 0
                  THEN LdInt(usableSpaceCurrent.m, Add(nextBlock.v, OffAllocated))
                  ELSE Ret(usableSpaceCurrent.m, 1), LAMBDA na :
                 IF nextBlock.v # 0 /\ na.v = 0
                     /\ ToSize(ToInt(Add(usableSpaceNext.v, usableSpaceCurrent.v))) >= newSize
                 THEN mergeNext(na.m, currentPrefix, nextBlock.v, usableSpaceNext.v,
                                usableSpaceCurrent.v, newSize)
                 ELSE resizeRegionExtraPast(na.m, r, currentPrefix, nextBlock.v,
                                            nextBlock.v # 0 /\ na.v = 0,
                                            usableSpaceNext.v, usableSpaceCurrent.v,
                                            oldSize.v, newSize, env)))))))

(***************************************************************************)
(* The state machine: a caller that holds the regions in live and calls    *)
(* the public functions in any order, and arenaCheck() after each call, as *)
(* the test programs do.  A call leaves its record in last and what        *)
(* arenaCheck() found in sound; the caller then resumes (Resume), which    *)
(* clears the record, and goes on if the program is alive and the arena    *)
(* sound.                                                                  *)
(***************************************************************************)
Mach == [mem |-> mem, arenaBegin |-> arenaBegin, arenaEnd |-> arenaEnd,
         growingDisabled |-> growingDisabled, brk |-> brk,
         err |-> err, calls |-> 0, blk |-> 0, path |-> "none",
         stamps |-> {}, nulls |-> 0, ub |-> "trap", got |-> 0]

\* the usable space of the block of region r, as the caller can compute it
UsableOf(mm, r) == Sub(Cell(mm, Sub(r, prefixSize))[2], r)

\* last: the call (op, arg, size), what it returned (ret), the usable space
\* of arg before the call (old), the branch taken (path), the block an
\* allocation took (blk), the number of calls of the provider (calls), the
\* calls of makeFreeBlock (stamps), the number of calls of
\* computeUsableSpace with a null block (nulls), and the usable space of the
\* free blocks in front of and behind arg's block before the call (past,
\* next; -1 where there is no free block), and what the provider returned
\* (got)
NoCall == [op |-> "none", arg |-> 0, size |-> 0, ret |-> 0, old |-> 0,
           path |-> "none", blk |-> 0, calls |-> 0, stamps |-> {}, nulls |-> 0,
           past |-> -1, next |-> -1, got |-> 0]

FreeInFront(r) ==
    IF r \notin live \/ regionToPrefix(r) = arenaBegin THEN -1
    ELSE LET q == Cell(mem, Add(computePrevSuffixAddr(regionToPrefix(r)), OffPrefix))[2]
         IN  IF Cell(mem, Add(q, OffAllocated)) = IntW(0)
             THEN Sub(Cell(mem, Add(q, OffSuffix))[2], Add(q, prefixSize)) ELSE -1

FreeBehind(r) ==
    IF r \notin live THEN -1
    ELSE LET n == Add(Cell(mem, Add(regionToPrefix(r), OffSuffix))[2], suffixSize)
         IN  IF n < arenaEnd /\ Cell(mem, Add(n, OffAllocated)) = IntW(0)
             THEN Sub(Cell(mem, Add(n, OffSuffix))[2], Add(n, prefixSize)) ELSE -1

Call(o, r, s, res, m) ==
    [op |-> o, arg |-> r, size |-> s, ret |-> res,
     old |-> IF r # 0 THEN UsableOf(mem, r) ELSE 0,
     path |-> m.path, blk |-> m.blk, calls |-> m.calls,
     stamps |-> m.stamps, nulls |-> m.nulls,
     past |-> FreeInFront(r), next |-> FreeBehind(r), got |-> m.got]

\* the caller goes on while the program is alive and the arena is sound
Alive == err = "none" /\ sound

\* the caller is between two calls
Running == Alive /\ last.op = "none"

\* the prefixes of the chain of a sound arena, from p on
RECURSIVE ChainFrom(_, _, _)
ChainFrom(mm, p, end) ==
    IF p = 0 \/ p = end THEN {}
    ELSE {p} \cup ChainFrom(mm, Add(Cell(mm, p)[2], suffixSize), end)

SuffixAt(mm, p) == Cell(mm, Add(p, OffSuffix))[2]

AllocatedAt(mm, p) == Cell(mm, Add(p, OffAllocated)) # IntW(0)

\* the cells that mean something after a call (see the head of the module)
Meaningful(mm, chain) ==
    UNION {{Add(p, OffSuffix), Add(p, OffAllocated), SuffixAt(mm, p)} : p \in chain}
    \cup {a \in DOMAIN mm :
            /\ mm[a][1] = "dat"
            /\ \E p \in chain : /\ AllocatedAt(mm, p)
                                /\ Add(p, prefixSize) <= a
                                /\ a < SuffixAt(mm, p)}

Forget(m, ok) ==
    IF ~ok THEN m.mem
    ELSE LET Keep(keep) == [a \in keep \cap DOMAIN m.mem |-> m.mem[a]]
         IN  Keep(Meaningful(m.mem, ChainFrom(m.mem, m.arenaBegin, m.arenaEnd)))

Commit(m) ==
    \E ok \in {arenaCheck(m).err = "none"} :
        /\ mem' = Forget(m, ok)
        /\ sound' = ok
        /\ arenaBegin' = m.arenaBegin
        /\ arenaEnd' = m.arenaEnd
        /\ growingDisabled' = m.growingDisabled
        /\ brk' = m.brk
        /\ err' = m.err

\* the provider is only asked while growing is enabled
EnvNow == IF growingDisabled # 0 THEN {"ok"} ELSE Env

Init ==
    /\ mem = NoMem
    /\ arenaBegin = 0
    /\ arenaEnd = 0
    /\ growingDisabled = 1
    /\ brk = ArenaBase
    /\ err = "none"
    /\ sound = TRUE
    /\ live = {}
    /\ last = NoCall

FirstFitAlloc ==
    /\ Running
    /\ \E s \in ReqSizes, env \in EnvNow :
        \E c \in {firstFitAllocRegion(Mach, s, env)} :
            /\ Commit(c.m)
            /\ live' = IF c.m.err = "none" /\ c.v # 0 THEN live \cup {c.v} ELSE live
            /\ last' = Call("firstFit", 0, s, c.v, c.m)

BestFitAlloc ==
    /\ Running
    /\ \E s \in ReqSizes, env \in EnvNow :
        \E c \in {bestFitAllocRegion(Mach, s, env)} :
            /\ Commit(c.m)
            /\ live' = IF c.m.err = "none" /\ c.v # 0 THEN live \cup {c.v} ELSE live
            /\ last' = Call("bestFit", 0, s, c.v, c.m)

Free ==
    /\ Running
    /\ \E r \in live \cup {0} :
        \E m \in {freeRegion(Mach, r)} :
            /\ Commit(m)
            /\ live' = live \ {r}
            /\ last' = Call("free", r, 0, 0, m)

\* the caller fills a region it holds with one of its byte patterns
WriteRegion ==
    /\ Running
    /\ \E r \in live, d \in DataVals :
        /\ LET n == UsableOf(mem, r) \div WordSize
               cells == {r + WordSize * i : i \in 0 .. (n - 1)}
           IN  /\ n > 0
               /\ mem' = [a \in DOMAIN mem \cup cells |->
                            IF a \in cells THEN DataW(100 * d + (a - r) \div WordSize)
                            ELSE mem[a]]
        /\ UNCHANGED <<arenaBegin, arenaEnd, growingDisabled, brk, err, sound, live, last>>

\* the regions the caller holds after a resize of r returned res
Held(m, r, res) ==
    IF m.err # "none" \/ m.path = "same" THEN live
    ELSE (live \ {r}) \cup ({res} \ {0})

OldResize ==
    /\ Running
    /\ \E r \in live \cup {0}, s \in ReqSizes, env \in EnvNow :
        \E c \in {oldResizeRegion(Mach, r, s, env)} :
            /\ Commit(c.m)
            /\ live' = Held(c.m, r, c.v)
            /\ last' = Call("oldResize", r, s, c.v, c.m)

Resize ==
    /\ Running
    /\ \E r \in live \cup {0}, s \in ReqSizes, env \in EnvNow, ub \in NullRead :
        \E c \in {resizeRegion([Mach EXCEPT !.ub = ub], r, s, env)} :
            /\ Commit(c.m)
            /\ live' = Held(c.m, r, c.v)
            /\ last' = Call("resize", r, s, c.v, c.m)

ResizeExtra ==
    /\ Running
    /\ \E r \in live \cup {0}, s \in ReqSizes, env \in EnvNow, ub \in NullRead :
        \E c \in {resizeRegionExtra([Mach EXCEPT !.ub = ub], r, s, env)} :
            /\ Commit(c.m)
            /\ live' = Held(c.m, r, c.v)
            /\ last' = Call("resizeExtra", r, s, c.v, c.m)

\* the caller has looked at the result of the call and goes on
Resume ==
    /\ Alive
    /\ last.op # "none"
    /\ last' = NoCall
    /\ UNCHANGED <<mem, arenaBegin, arenaEnd, growingDisabled, brk, err, sound, live>>

\* The allocator with growth enabled (growingDisabled = 0), under allocation
\* and release: the caller holds at most MaxHeld regions and asks for a size
\* that fits the first chunk with room to spare, for the largest size the
\* first chunk can hold, for a size above it, and for a size near SIZE_MAX.
GrowSizes == {MaxReq, DEFAULT_BRKSIZE - (prefixSize + suffixSize), DEFAULT_BRKSIZE,
              SizeMod - 2 * WordSize}

InitGrow ==
    /\ mem = NoMem
    /\ arenaBegin = 0
    /\ arenaEnd = 0
    /\ growingDisabled = 0
    /\ brk = ArenaBase
    /\ err = "none"
    /\ sound = TRUE
    /\ live = {}
    /\ last = NoCall

GrowFirstFit ==
    /\ Running
    /\ Cardinality(live) < MaxHeld
    /\ \E s \in GrowSizes, env \in EnvNow :
        \E c \in {firstFitAllocRegion(Mach, s, env)} :
            /\ Commit(c.m)
            /\ live' = IF c.m.err = "none" /\ c.v # 0 THEN live \cup {c.v} ELSE live
            /\ last' = Call("firstFit", 0, s, c.v, c.m)

GrowBestFit ==
    /\ Running
    /\ Cardinality(live) < MaxHeld
    /\ \E s \in GrowSizes, env \in EnvNow :
        \E c \in {bestFitAllocRegion(Mach, s, env)} :
            /\ Commit(c.m)
            /\ live' = IF c.m.err = "none" /\ c.v # 0 THEN live \cup {c.v} ELSE live
            /\ last' = Call("bestFit", 0, s, c.v, c.m)

NextGrow == GrowFirstFit \/ GrowBestFit \/ Free \/ Resume

SpecGrow == InitGrow /\ [][NextGrow]_vars

\* the allocator under allocation and release only
NextAF == FirstFitAlloc \/ BestFitAlloc \/ Free \/ WriteRegion \/ Resume

SpecAF == Init /\ [][NextAF]_vars

\* the allocator under every public function
Next == FirstFitAlloc \/ BestFitAlloc \/ Free \/ WriteRegion
            \/ OldResize \/ Resize \/ ResizeExtra \/ Resume

Spec == Init /\ [][Next]_vars

(***************************************************************************)
(* Properties.  The blocks of the arena as the chain of prefixes gives     *)
(* them, read from mem without the checks of the C code.                   *)
(***************************************************************************)
Chain == ChainFrom(mem, arenaBegin, arenaEnd)

IsFree(p) == Cell(mem, Add(p, OffAllocated)) = IntW(0)

IsAllocated(p) == Cell(mem, Add(p, OffAllocated)) = IntW(1)

Usable(p) == Sub(SuffixAt(mem, p), Add(p, prefixSize))

NextOf(p) == Add(SuffixAt(mem, p), suffixSize)

\* the payload addresses of region r
Payload(mm, r) == {a \in r .. (r + UsableOf(mm, r) - 1) : TRUE}

\* from prefix p on, every block lies in the arena, its suffix refers back to
\* its prefix, and the last block ends at arenaEnd
RECURSIVE WellChained(_, _)
WellChained(p, fuel) ==
    /\ fuel > 0
    /\ arenaBegin <= p /\ p < arenaEnd
    /\ Cell(mem, Add(p, OffSuffix))[1] = "ptr"
    /\ Cell(mem, Add(p, OffAllocated))[1] = "int"
    /\ p < SuffixAt(mem, p) /\ SuffixAt(mem, p) < arenaEnd
    /\ Cell(mem, Add(SuffixAt(mem, p), OffPrefix)) = PtrW(p)
    /\ \/ NextOf(p) = arenaEnd
       \/ WellChained(NextOf(p), fuel - 1)

\* C1: under any sequence of firstFitAllocRegion, bestFitAllocRegion and
\* freeRegion calls (freeRegion with null or a region that is allocated) the
\* program is alive, arenaCheck's assertions hold, and the arena is a
\* gapless chain of blocks from arenaBegin to arenaEnd, every prefix and
\* suffix inside the arena and every suffix referring back to its prefix
C1_GaplessChain ==
    /\ err = "none"
    /\ sound
    /\ arenaBegin # 0 => WellChained(arenaBegin, ArenaWords)

\* a free has left a chain of at least four blocks
C1_Witness ==
    /\ last.op = "free" /\ last.arg # 0
    /\ Cardinality(Chain) >= 4
    /\ WellChained(arenaBegin, ArenaWords)

\* C2: a successful firstFitAllocRegion(size) or bestFitAllocRegion(size)
\* returns a region that was not held, whose block is marked allocated, whose
\* usable space is a multiple of 8 and at least size, and whose payload is
\* disjoint from the payload of every other region held
C2_AllocStep ==
    (last'.op \in {"firstFit", "bestFit"} /\ last'.ret # 0) =>
        /\ last'.ret \notin live
        /\ Cell(mem', Add(regionToPrefix(last'.ret), OffAllocated)) = IntW(1)
        /\ UsableOf(mem', last'.ret) % 8 = 0
        /\ UsableOf(mem', last'.ret) >= last'.size
        /\ \A q \in live : Payload(mem', q) \cap Payload(mem', last'.ret) = {}

C2_AllocatedRegion == [][C2_AllocStep]_vars

\* an allocation of a size that is no multiple of 8 succeeded while two
\* other regions with payload were held
C2_Witness ==
    /\ last.op \in {"firstFit", "bestFit"} /\ last.ret # 0
    /\ last.size % 8 # 0
    /\ Cardinality({q \in live \ {last.ret} : UsableOf(mem, q) > 0}) >= 2

\* C3: after freeRegion(r) on an allocated region no two adjacent blocks of
\* the arena are both free
C3_NoAdjacentFree ==
    (last.op = "free" /\ last.arg # 0) =>
        \A p \in Chain : ~(IsFree(p) /\ NextOf(p) \in Chain /\ IsFree(NextOf(p)))

\* the freed block was merged with a free predecessor and a free successor:
\* a free block begins in front of it and ends behind its old suffix, and
\* an allocated block follows
C3_Witness ==
    /\ last.op = "free" /\ last.arg # 0
    /\ \E p \in Chain :
        /\ IsFree(p)
        /\ p < regionToPrefix(last.arg)
        /\ SuffixAt(mem, p) > Add(last.arg, last.old)
        /\ NextOf(p) \in Chain

\* the free blocks that can serve a request of s bytes
FreeFits(s) == {q \in Chain : IsFree(q) /\ Usable(q) >= s}

\* the cells of the block at prefix p: suffix pointer, flag, back-reference
BlockCells(p) == {Add(p, OffSuffix), Add(p, OffAllocated), Add(SuffixAt(mem, p), OffPrefix)}

\* no prefix, suffix or allocation flag of the arena differs after the step
SameBlocks ==
    /\ arenaBegin' = arenaBegin
    /\ ChainFrom(mem', arenaBegin', arenaEnd') = Chain
    /\ \A p \in Chain : \A a \in BlockCells(p) : Cell(mem', a) = Cell(mem, a)

\* C6: bestFitAllocRegion(s) takes its block from the free block with the
\* smallest usable space among the free blocks with usable space >= s, the
\* one at the lowest address when several share it (the first call takes
\* the one block of the fresh arena)
C6_BestFitStep ==
    (last'.op = "bestFit" /\ last'.ret # 0) =>
        IF arenaBegin = 0 THEN last'.blk = arenaBegin'
        ELSE /\ last'.blk \in FreeFits(last'.size)
             /\ \A q \in FreeFits(last'.size) :
                    \/ Usable(last'.blk) < Usable(q)
                    \/ Usable(last'.blk) = Usable(q) /\ last'.blk <= q

C6_BestFit == [][C6_BestFitStep]_vars

\* best fit took the whole of a block that did not fit exactly, in front of
\* a free block of the same usable space
C6_Witness ==
    /\ last.op = "bestFit" /\ last.ret # 0 /\ last.path = "whole"
    /\ Usable(last.blk) # last.size
    /\ \E q \in Chain : q > last.blk /\ IsFree(q) /\ Usable(q) = Usable(last.blk)

\* C7: firstFitAllocRegion(s) takes its block from the lowest-addressed free
\* block with usable space >= s: every block in front of it is allocated or
\* has usable space < s
C7_FirstFitStep ==
    (last'.op = "firstFit" /\ last'.ret # 0) =>
        IF arenaBegin = 0 THEN last'.blk = arenaBegin'
        ELSE /\ last'.blk \in FreeFits(last'.size)
             /\ \A q \in Chain : q < last'.blk => ~IsFree(q) \/ Usable(q) < last'.size

NoFit(s) ==
    IF arenaBegin = 0 THEN s > DEFAULT_BRKSIZE - (prefixSize + suffixSize)
    ELSE FreeFits(s) = {}

\* C8 as stated: with growth disabled, when no free block has usable space
\* >= size, the allocation returns null, arenaEnd is not moved, the provider
\* is not called and no prefix, suffix or allocation flag changes
C8_OriginalStep ==
    (last'.op \in {"firstFit", "bestFit"} /\ growingDisabled # 0
        /\ NoFit(last'.size)) =>
        /\ last'.ret = 0
        /\ arenaEnd' = arenaEnd
        /\ last'.calls = 0
        /\ SameBlocks

C8_Original == [][C8_OriginalStep]_vars

\* C8 amended: the same, once the arena is initialised (arenaBegin # 0)
C8_NoGrowthStep ==
    (last'.op \in {"firstFit", "bestFit"} /\ growingDisabled # 0
        /\ arenaBegin # 0 /\ FreeFits(last'.size) = {}) =>
        /\ last'.ret = 0
        /\ arenaEnd' = arenaEnd
        /\ last'.calls = 0
        /\ SameBlocks
        /\ mem' = mem

C8_NoGrowth == [][C8_NoGrowthStep]_vars

\* a request that a block of the arena could hold failed while regions were
\* held and a free block was left
C8_Witness ==
    /\ last.op \in {"firstFit", "bestFit"} /\ last.ret = 0
    /\ growingDisabled # 0 /\ last.calls = 0
    /\ last.size <= MaxReq
    /\ live # {}
    /\ \E q \in Chain : IsFree(q)

Resizes == {"oldResize", "resize", "resizeExtra"}

\* the cells of the payload of region r that hold bytes the caller wrote
Written(r) == {a \in Payload(mem, r) : Cell(mem, a)[1] = "dat"}

\* C4: oldResizeRegion, resizeRegion or resizeRegionExtra, called with
\* newSize larger than the usable space n of the held region r, returns a
\* region r2 with r2[i] = r[i] for every byte i < n that r held
C4_BytesStep ==
    (/\ last'.op \in Resizes /\ last'.arg \in live
     /\ last'.size > UsableOf(mem, last'.arg)
     /\ err' = "none" /\ last'.ret # 0) =>
        \A a \in Written(last'.arg) :
            Cell(mem', Add(last'.ret, a - last'.arg)) = Cell(mem, a)

C4_BytesPreserved == [][C4_BytesStep]_vars

\* C5: oldResizeRegion, resizeRegion or resizeRegionExtra, called with
\* newSize not larger than the usable space of the held region r, returns r
\* and changes nothing
C5_NoChangeStep ==
    (/\ last'.op \in Resizes /\ last'.arg \in live
     /\ last'.size <= UsableOf(mem, last'.arg)) =>
        /\ last'.ret = last'.arg
        /\ last'.calls = 0
        /\ mem' = mem
        /\ arenaBegin' = arenaBegin /\ arenaEnd' = arenaEnd /\ brk' = brk
        /\ err' = "none" /\ sound'
        /\ live' = live

C5_NoChange == [][C5_NoChangeStep]_vars

\* resizeRegionExtra left a region alone that holds bytes, the size asked
\* for being its usable space
C5_Witness ==
    /\ last.op = "resizeExtra" /\ last.arg \in live
    /\ last.path = "same" /\ last.ret = last.arg
    /\ last.size = UsableOf(mem, last.arg) /\ last.size > 0
    /\ Written(last.arg) # {}

\* C9: resizeRegion(r, newSize), called with newSize above the usable space
\* of r, the successor of r's block free and usable(r) + usable(successor)
\* >= newSize, returns r by the successor merge, r's block allocated with
\* usable space >= newSize, and no other block of the arena has its flag
\* changed: no region is allocated or copied into
C9_InPlaceStep ==
    (/\ last'.op = "resize" /\ last'.arg \in live
     /\ last'.size > UsableOf(mem, last'.arg)
     /\ NextOf(regionToPrefix(last'.arg)) \in Chain
     /\ IsFree(NextOf(regionToPrefix(last'.arg)))
     /\ UsableOf(mem, last'.arg) + Usable(NextOf(regionToPrefix(last'.arg)))
            >= last'.size) =>
        /\ err' = "none"
        /\ last'.ret = last'.arg
        /\ last'.path = "next"
        /\ Cell(mem', Add(regionToPrefix(last'.arg), OffAllocated)) = IntW(1)
        /\ UsableOf(mem', last'.arg) >= last'.size
        /\ live' = live
        /\ \A q \in Chain \ {regionToPrefix(last'.arg), NextOf(regionToPrefix(last'.arg))} :
                \A a \in BlockCells(q) : Cell(mem', a) = Cell(mem, a)
        /\ \A a \in Written(last'.arg) : Cell(mem', a) = Cell(mem, a)

C9_InPlace == [][C9_InPlaceStep]_vars

\* resizeRegion grew a region that holds bytes into its successor, another
\* region being held, and left a sound arena
C9_Witness ==
    /\ last.op = "resize" /\ last.path = "next" /\ last.ret = last.arg
    /\ err = "none" /\ sound
    /\ UsableOf(mem, last.arg) > last.old /\ last.old > 0
    /\ Written(last.arg) # {}
    /\ Cardinality(live) >= 2

\* the prefix of the block in front of the block at p (p is not the first)
PrevOf(p) == Cell(mem, Add(computePrevSuffixAddr(p), OffPrefix))[2]

\* resizeRegionExtra(r, newSize) can only be served by both neighbours of
\* r's block: both exist and are free, neither alone reaches newSize with
\* r, the three together do
NeedsBoth(r, newSize) ==
    /\ r \in live
    /\ regionToPrefix(r) # arenaBegin
    /\ NextOf(regionToPrefix(r)) \in Chain
    /\ IsFree(PrevOf(regionToPrefix(r)))
    /\ IsFree(NextOf(regionToPrefix(r)))
    /\ UsableOf(mem, r) + Usable(NextOf(regionToPrefix(r))) < newSize
    /\ Usable(PrevOf(regionToPrefix(r))) + UsableOf(mem, r) < newSize
    /\ Usable(PrevOf(regionToPrefix(r))) + UsableOf(mem, r)
            + Usable(NextOf(regionToPrefix(r))) >= newSize

\* C10: resizeRegionExtra(r, newSize), when only both neighbours together
\* can serve it, merges: no fallback, the returned region's block is
\* allocated, covers the whole of r's old block and has usable space
\* >= newSize
C10_BothStep ==
    (last'.op = "resizeExtra" /\ NeedsBoth(last'.arg, last'.size)) =>
        /\ err' = "none"
        /\ last'.path \in {"both_past", "both_next"}
        /\ last'.ret # 0
        /\ Cell(mem', Add(regionToPrefix(last'.ret), OffAllocated)) = IntW(1)
        /\ regionToPrefix(last'.ret) <= regionToPrefix(last'.arg)
        /\ Cell(mem', regionToPrefix(last'.ret))[1] = "ptr"
        /\ Cell(mem', regionToPrefix(last'.ret))[2] >= SuffixAt(mem, regionToPrefix(last'.arg))
        /\ UsableOf(mem', last'.ret) >= last'.size

C10_BothNeighbours == [][C10_BothStep]_vars

\* C11: from an arena that passes arenaCheck, after resizeRegion(r, newSize)
\* on a held region r with newSize above the usable space of r has returned,
\* however small newSize - usable(r) is, the arena passes arenaCheck again
C11_ResizeStep ==
    (/\ last'.op = "resize" /\ last'.arg \in live
     /\ last'.size > UsableOf(mem, last'.arg)
     /\ err' = "none") =>
        sound'

C11_ResizeSound == [][C11_ResizeStep]_vars

\* C12: from an arena that passes arenaCheck, after resizeRegionExtra(r,
\* newSize) on a held region r with newSize above the usable space of r has
\* returned, whichever branch served it, the arena passes arenaCheck again
C12_ResizeExtraStep ==
    (/\ last'.op = "resizeExtra" /\ last'.arg \in live
     /\ last'.size > UsableOf(mem, last'.arg)
     /\ err' = "none") =>
        sound'

C12_ResizeExtraSound == [][C12_ResizeExtraStep]_vars

\* the chain of blocks after the step
ChainAfter == ChainFrom(mem', arenaBegin', arenaEnd')

\* after the step the block at prefix p is free and none of its neighbours is
FreeAlone(p) ==
    /\ Cell(mem', Add(p, OffAllocated)) = IntW(0)
    /\ \A q \in ChainAfter :
        (Add(SuffixAt(mem', q), suffixSize) = p \/ Add(SuffixAt(mem', p), suffixSize) = q) =>
            Cell(mem', Add(q, OffAllocated)) = IntW(1)

\* C13: oldResizeRegion(r, newSize) on a held region r, newSize above the
\* usable space of r and a free block with usable space >= newSize in the
\* arena, returns a region other than r whose block is allocated with usable
\* space >= newSize; afterwards the bytes of the block that held r lie in a
\* free block that has no free neighbour
C13_CopyStep ==
    (/\ last'.op = "oldResize" /\ last'.arg \in live
     /\ last'.size > UsableOf(mem, last'.arg)
     /\ FreeFits(last'.size) # {}) =>
        /\ err' = "none" /\ sound'
        /\ last'.ret # 0 /\ last'.ret # last'.arg /\ last'.ret \notin live
        /\ Cell(mem', Add(regionToPrefix(last'.ret), OffAllocated)) = IntW(1)
        /\ UsableOf(mem', last'.ret) >= last'.size
        /\ live' = (live \ {last'.arg}) \cup {last'.ret}
        /\ \E p \in ChainAfter :
            /\ p <= regionToPrefix(last'.arg)
            /\ SuffixAt(mem', p) >= SuffixAt(mem, regionToPrefix(last'.arg))
            /\ FreeAlone(p)

C13_CopyResize == [][C13_CopyStep]_vars

\* oldResizeRegion moved a region that holds bytes, and the block it left
\* was merged with the free block in front of it
C13_Witness ==
    /\ last.op = "oldResize" /\ last.path = "copy" /\ last.ret # 0
    /\ last.old > 0 /\ last.size > last.old
    /\ Written(last.ret) # {}
    /\ \E p \in Chain : /\ IsFree(p)
                         /\ p < regionToPrefix(last.arg)
                         /\ SuffixAt(mem, p) >= Add(last.arg, last.old)

\* C14: a null region faults nowhere: freeRegion(null) changes nothing; the
\* three resize functions called with null read no block through it, return
\* null for newSize = 0 and for newSize > 0 do what an allocation of newSize
\* does (a region not held, allocated, with usable space >= newSize, when a
\* free block can serve it, null when none can)
C14_NullStep ==
    /\ (last'.op = "free" /\ last'.arg = 0) =>
            /\ err' = "none" /\ sound' /\ mem' = mem /\ live' = live
            /\ arenaBegin' = arenaBegin /\ arenaEnd' = arenaEnd
    /\ (last'.op \in Resizes /\ last'.arg = 0) =>
            /\ err' = "none" /\ sound' /\ last'.nulls = 0
            /\ last'.size = 0 => last'.ret = 0 /\ mem' = mem
            /\ (last'.size > 0 /\ NoFit(last'.size)) => last'.ret = 0 /\ live' = live
            /\ (last'.size > 0 /\ ~NoFit(last'.size)) =>
                    /\ last'.ret # 0 /\ last'.ret \notin live
                    /\ live' = live \cup {last'.ret}
                    /\ Cell(mem', Add(regionToPrefix(last'.ret), OffAllocated)) = IntW(1)
                    /\ UsableOf(mem', last'.ret) >= last'.size

C14_NullRegion == [][C14_NullStep]_vars

\* C15: when oldResizeRegion, resizeRegion or resizeRegionExtra on a held
\* region reaches its fallback and no free block can serve newSize (growth
\* disabled), the call returns null and nothing is written through the null
\* result: no access faults
C15_FailStep ==
    (/\ last'.op \in Resizes /\ last'.arg \in live
     /\ last'.size > UsableOf(mem, last'.arg)
     /\ last'.path = "copy"
     /\ growingDisabled # 0 /\ FreeFits(last'.size) = {}) =>
        /\ err' = "none"
        /\ last'.ret = 0

C15_FailureReturned == [][C15_FailStep]_vars

\* C16 as stated: in the three-way merge of resizeRegionExtra the branch that
\* trims the predecessor is taken when the predecessor's usable space is
\* larger than or equal to the successor's, the branch that trims the
\* successor when it is smaller
C16_OriginalStep ==
    (last'.op = "resizeExtra" /\ NeedsBoth(last'.arg, last'.size)) =>
        last'.path = IF last'.past >= last'.next THEN "both_past" ELSE "both_next"

C16_Original == [][C16_OriginalStep]_vars

\* C16 amended: the branch that trims the predecessor is taken when the
\* predecessor's usable space is larger than the successor's, the branch that
\* trims the successor when it is smaller or equal
C16_TrimStep ==
    (last'.op = "resizeExtra" /\ NeedsBoth(last'.arg, last'.size)) =>
        /\ last'.past = Usable(PrevOf(regionToPrefix(last'.arg)))
        /\ last'.next = Usable(NextOf(regionToPrefix(last'.arg)))
        /\ last'.path = IF last'.past > last'.next THEN "both_past" ELSE "both_next"

C16_TrimLarger == [][C16_TrimStep]_vars

\* the three-way merge ran between two free neighbours of the same usable
\* space, and it took the branch that trims the successor
C16_Witness ==
    /\ last.op = "resizeExtra" /\ last.path = "both_next"
    /\ last.past >= 0 /\ last.past = last.next
    /\ last.old + last.next < last.size

\* the public functions that change the arena
Mutators == {"firstFit", "bestFit", "free"} \cup Resizes

\* C17: a call of firstFitAllocRegion, bestFitAllocRegion, freeRegion,
\* oldResizeRegion, resizeRegion or resizeRegionExtra leaves every region
\* that is held and is not the one it acts on as it was: still held, its
\* block at the same address and allocated, with the same usable space and
\* the same payload bytes
C17_FrameStep ==
    last'.op \in Mutators =>
        \A q \in live \ {last'.arg} :
            /\ q \in live'
            /\ Cell(mem', Add(regionToPrefix(q), OffAllocated)) = IntW(1)
            /\ Cell(mem', Add(regionToPrefix(q), OffSuffix))
                    = Cell(mem, Add(regionToPrefix(q), OffSuffix))
            /\ UsableOf(mem', q) = UsableOf(mem, q)
            /\ \A a \in Written(q) : Cell(mem', a) = Cell(mem, a)

C17_OthersUntouched == [][C17_FrameStep]_vars

\* resizeRegionExtra grew a region into its predecessor while another region
\* that holds bytes was held
C17_Witness ==
    /\ last.op = "resizeExtra" /\ last.path \in {"past", "both_past", "both_next"}
    /\ err = "none"
    /\ \E q \in live \ {last.ret} : Written(q) # {}

\* C18: every call of makeFreeBlock made by the public function that ran
\* last passed a start address inside the arena and a total size of at least
\* prefixSize + suffixSize that ends inside the arena
C18_StampsFit ==
    \A st \in last.stamps :
        /\ arenaBegin <= st[1] /\ st[1] < arenaEnd
        /\ st[2] >= prefixSize + suffixSize
        /\ st[1] + st[2] <= arenaEnd

\* the block of region r is the last of the arena
IsLast(r) == NextOf(regionToPrefix(r)) = arenaEnd

\* the block of region r is the first of the arena
IsFirst(r) == regionToPrefix(r) = arenaBegin

\* the successor of r's block is free and serves newSize together with r
NextServes(r, newSize) ==
    /\ ~IsLast(r)
    /\ IsFree(NextOf(regionToPrefix(r)))
    /\ UsableOf(mem, r) + Usable(NextOf(regionToPrefix(r))) >= newSize

\* C19: resizeRegion and resizeRegionExtra on the last block of the arena,
\* and resizeRegionExtra on the first block when the successor cannot serve
\* the request, with newSize above the usable space of r, do not call
\* computeUsableSpace on the missing neighbour, read nothing through a null
\* block and go on to the next strategy or to the fallback
C19_NeighbourStep ==
    (/\ last'.op \in {"resize", "resizeExtra"} /\ last'.arg \in live
     /\ last'.size > UsableOf(mem, last'.arg)
     /\ \/ IsLast(last'.arg)
        \/ (last'.op = "resizeExtra" /\ IsFirst(last'.arg)
                /\ ~NextServes(last'.arg, last'.size))
     /\ ~(growingDisabled # 0 /\ FreeFits(last'.size) = {} /\ last'.path = "copy")) =>
        /\ last'.nulls = 0
        /\ err' = "none"
        /\ last'.path \in {"past", "copy"}

C19_MissingNeighbour == [][C19_NeighbourStep]_vars

\* the free blocks after the step that were not free blocks before it, the
\* block that a fallback made by freeing r's old block left aside
LeftBehind ==
    {p \in ChainAfter :
        /\ Cell(mem', Add(p, OffAllocated)) = IntW(0)
        /\ ~(p \in Chain /\ IsFree(p) /\ SuffixAt(mem', p) = SuffixAt(mem, p))
        /\ ~(/\ last'.path = "copy" /\ last'.arg \in live
              /\ p <= regionToPrefix(last'.arg)
              /\ SuffixAt(mem', p) >= SuffixAt(mem, regionToPrefix(last'.arg)))}

\* C20: after an allocation or a resize, every free piece that the call has
\* left behind by splitting a free block has at least 8 bytes of usable
\* space; a piece that would be smaller is not split off
C20_SliverStep ==
    (/\ last'.op \in {"firstFit", "bestFit"} \cup Resizes
     /\ err' = "none" /\ sound') =>
        \A p \in LeftBehind : Sub(SuffixAt(mem', p), Add(p, prefixSize)) >= 8

C20_NoTinySliver == [][C20_SliverStep]_vars

\* the block at q is the best fit for s bytes: a free block that fits with
\* the smallest usable space, the lowest-addressed of those
IsBestFit(q, s) ==
    /\ q \in FreeFits(s)
    /\ \A t \in FreeFits(s) : Usable(q) < Usable(t) \/ (Usable(q) = Usable(t) /\ q <= t)

\* the block at q is the first fit for s bytes: the lowest-addressed free
\* block that fits
IsFirstFit(q, s) ==
    /\ q \in FreeFits(s)
    /\ \A t \in FreeFits(s) : q <= t

\* a resize of a held region has allocated a fresh region in its fallback
FellBack ==
    /\ last'.op \in Resizes /\ last'.arg \in live
    /\ last'.path = "copy" /\ last'.ret # 0 /\ err' = "none"

\* C21 as stated: the fallback of oldResizeRegion, resizeRegion and
\* resizeRegionExtra takes the fresh region from the best-fit block
C21_OriginalStep == FellBack => IsBestFit(last'.blk, last'.size)

C21_FallbackStep ==
    FellBack =>
        /\ regionToPrefix(last'.ret) = last'.blk
        /\ IF last'.op = "oldResize" THEN IsFirstFit(last'.blk, last'.size)
            ELSE IsBestFit(last'.blk, last'.size)

UsableBefore(q) ==
    IF arenaBegin = 0 THEN DEFAULT_BRKSIZE - (prefixSize + suffixSize) ELSE Usable(q)

\* the address behind the block an allocation takes, before the step
EndBefore(q) == IF arenaBegin = 0 THEN arenaEnd' ELSE NextOf(q)

\* C22: a successful firstFitAllocRegion(size) or bestFitAllocRegion(size),
\* asize being size rounded up to a multiple of 8, splits the block it takes
\* exactly when the block's usable space is >= asize + prefixSize +
\* suffixSize + 8; after a split the allocated block has usable space asize
\* and one free block of usable space (old usable - asize - prefixSize -
\* suffixSize) follows it, ending where the block ended; without a split the
\* block is allocated with its usable space unchanged
C22_SplitStep ==
    (last'.op \in {"firstFit", "bestFit"} /\ last'.ret # 0) =>
        /\ err' = "none"
        /\ regionToPrefix(last'.ret) = last'.blk
        /\ Cell(mem', Add(last'.blk, OffAllocated)) = IntW(1)
        /\ IF UsableBefore(last'.blk) >= align8(last'.size) + prefixSize + suffixSize + 8
           THEN /\ last'.path = "split"
                /\ UsableOf(mem', last'.ret) = align8(last'.size)
                /\ Cell(mem', Add(Add(last'.ret, align8(last'.size)), OffPrefix))
                        = PtrW(last'.blk)
                /\ Cell(mem', Add(last'.ret, align8(last'.size) + suffixSize + OffAllocated))
                        = IntW(0)
                /\ UsableOf(mem', Add(last'.ret, align8(last'.size) + suffixSize + prefixSize))
                        = UsableBefore(last'.blk) - align8(last'.size)
                                - prefixSize - suffixSize
                /\ Add(SuffixAt(mem', Add(last'.ret, align8(last'.size) + suffixSize)),
                       suffixSize) = EndBefore(last'.blk)
           ELSE /\ last'.path = "whole"
                /\ UsableOf(mem', last'.ret) = UsableBefore(last'.blk)

C22_SplitRule == [][C22_SplitStep]_vars

\* an allocation has split a block and left a remainder of the smallest
\* size, 8 bytes of usable space, for a size that is no multiple of 8
C22_Witness ==
    /\ last.op \in {"firstFit", "bestFit"} /\ last.path = "split"
    /\ last.size % 8 # 0
    /\ IsFree(NextOf(last.blk)) /\ Usable(NextOf(last.blk)) = 8
    /\ live \ {last.ret} # {}

\* an allocation has taken a whole block that is larger than the size
\* rounded up, the rest being too small for a block
C22_WitnessWhole ==
    /\ last.op \in {"firstFit", "bestFit"} /\ last.path = "whole" /\ last.ret # 0
    /\ UsableOf(mem, last.ret) >= align8(last.size) + prefixSize + suffixSize

\* the walk p = computeNextPrefixAddr(p) from prefix p on reads a suffix
\* pointer at every block, moves to a strictly higher address with every
\* step and ends at arenaEnd
RECURSIVE Ascends(_, _)
Ascends(p, fuel) ==
    /\ fuel > 0
    /\ Cell(mem, Add(p, OffSuffix))[1] = "ptr"
    /\ NextOf(p) > p
    /\ NextOf(p) <= arenaEnd
    /\ \/ NextOf(p) = arenaEnd
       \/ Ascends(NextOf(p), fuel - 1)

\* C23: in every state that a sequence of allocate, free and resize calls
\* reaches (the program has not faulted), the block walk of findFirstFit,
\* findBestFit and arenaCheck from arenaBegin moves to a strictly higher
\* address with every step and ends at arenaEnd
C23_WalksEnd ==
    (err = "none" /\ arenaBegin # 0) => Ascends(arenaBegin, Fuel(Mach))

\* C24: under firstFitAllocRegion, bestFitAllocRegion and freeRegion (growth
\* disabled), whenever every region that was allocated has been freed, the
\* arena is the one free block that initializeArena() made: it starts at
\* arenaBegin, ends at arenaEnd = arenaBegin + DEFAULT_BRKSIZE and has usable
\* space DEFAULT_BRKSIZE - prefixSize - suffixSize
C24_AllFreed ==
    (live = {} /\ arenaBegin # 0) =>
        /\ err = "none" /\ sound
        /\ arenaEnd = arenaBegin + DEFAULT_BRKSIZE
        /\ Chain = {arenaBegin}
        /\ IsFree(arenaBegin)
        /\ Usable(arenaBegin) = DEFAULT_BRKSIZE - prefixSize - suffixSize
        /\ Cell(mem, Add(SuffixAt(mem, arenaBegin), OffPrefix)) = PtrW(arenaBegin)

\* the last region held was freed, between a free block in front of it and
\* a free block behind it
C24_Witness ==
    /\ live = {} /\ last.op = "free" /\ last.arg # 0
    /\ last.past >= 8 /\ last.next >= 8
    /\ Chain = {arenaBegin}

\* max(s + prefixSize + suffixSize, DEFAULT_BRKSIZE), the sum taken as a size_t
GrowBy(s) ==
    IF Add(s, prefixSize + suffixSize) > DEFAULT_BRKSIZE
    THEN Add(s, prefixSize + suffixSize) ELSE DEFAULT_BRKSIZE

\* the last block of the arena
TailBlock == Cell(mem, Add(Sub(arenaEnd, suffixSize), OffPrefix))[2]

\* an allocation has called growArena(s), and the provider has returned
\* memory that starts at arenaEnd
Grew ==
    /\ last'.op \in {"firstFit", "bestFit"}
    /\ growingDisabled = 0 /\ arenaBegin # 0
    /\ last'.calls = 1 /\ last'.got = arenaEnd

\* what C25 says of growArena(s): arenaEnd is raised by max(s + prefixSize +
\* suffixSize, DEFAULT_BRKSIZE), the new memory is stamped as one free block
\* and merged with the former tail block when that is free, the block
\* returned has usable space >= s, and the arena is a gapless chain that
\* ends at the new arenaEnd
GrowsRight ==
    /\ err' = "none" /\ sound'
    /\ arenaEnd' = arenaEnd + GrowBy(last'.size)
    /\ <<arenaEnd, GrowBy(last'.size)>> \in last'.stamps
    /\ last'.blk = IF IsFree(TailBlock) THEN TailBlock ELSE arenaEnd
    /\ last'.ret = prefixToRegion(last'.blk)
    /\ (arenaEnd' - suffixSize) - (last'.blk + prefixSize) >= last'.size

\* C25: with growth enabled and a provider that returns memory starting at
\* arenaEnd, growArena(s) does what GrowsRight says, for every s
C25_GrowStep == Grew => GrowsRight

C25_GrowArena == [][C25_GrowStep]_vars

\* the same for every s with s + prefixSize + suffixSize <= SIZE_MAX
C25_NoWrapStep ==
    (Grew /\ last'.size + prefixSize + suffixSize < SizeMod) => GrowsRight

C25_GrowArenaNoWrap == [][C25_NoWrapStep]_vars

\* growArena has added a chunk larger than DEFAULT_BRKSIZE behind a free
\* tail block and returned the merged block
C25_WitnessNoWrap ==
    /\ last.op \in {"firstFit", "bestFit"} /\ last.calls = 1 /\ last.ret # 0
    /\ arenaBegin # 0 /\ err = "none" /\ sound
    /\ arenaEnd - arenaBegin > 2 * DEFAULT_BRKSIZE
    /\ \E st \in last.stamps : st[1] = last.blk /\ st[1] < last.got /\ st[1] + st[2] = arenaEnd

====
